---------------------------- MODULE Spec2Model ----------------------------
(***************************************************************************)
(* Container / box / cylinder selection: the hierarchy built from the      *)
(* input rows, the solution validator evaluate_solution, and the loop that *)
(* searches for alternative optimal solutions (src/unnamed/part_000), and  *)
(* the sums and linking constraints as src/main.ipynb builds them.         *)
(*                                                                         *)
(* Strings are sequences of one-character strings, so that split and join  *)
(* are computed as Python computes them.  Weights and volumes are          *)
(* fixed-point numbers in thousandths; round(x, 2) yields hundredths.      *)
(***************************************************************************)
EXTENDS Integers, Sequences, FiniteSets, TLC

(***************************************************************************)
(* Bounds and program constants (scaled to the fixture below).             *)
(***************************************************************************)
\* Bound on the cap of the search loop.
MaxCap == 2

\* MAX_DIFFERENT_SOLUTIONS = 100 in the source; scaled to the bound.
MAX_DIFFERENT_SOLUTIONS == MaxCap

\* TOTAL_CONTAINERS = 35 in the source; scaled to the fixture.
TOTAL_CONTAINERS == 2

\* TOTAL_VOLUME = 5163.69 in the source; here 2.00, in hundredths.
TOTAL_VOLUME == 200

\* TOTAL_WEIGHT = 18844 in the source; here 6.00, in hundredths.
TOTAL_WEIGHT == 600

DIGITS_PRECISION == 2

\* Resolution of the float inputs: three decimal digits.
InputDigits == 3

LpStatusOptimal == 1

LpStatusInfeasible == -1

LpStatusNotSolved == 0

(***************************************************************************)
(* Strings.                                                                *)
(***************************************************************************)
\* The characters in use, in code-point order.
Alphabet == <<"\n", ",", "1", "2", "A", "B", "C", "|">>

Ord(ch) == CHOOSE i \in 1..Len(Alphabet) : Alphabet[i] = ch

RECURSIVE StrLess(_, _)
\* s < t for Python strings (lexicographic by code point).
StrLess(s, t) ==
    IF t = <<>> THEN FALSE
    ELSE IF s = <<>> THEN TRUE
    ELSE IF Ord(Head(s)) < Ord(Head(t)) THEN TRUE
    ELSE IF Ord(Head(s)) > Ord(Head(t)) THEN FALSE
    ELSE StrLess(Tail(s), Tail(t))

RECURSIVE SplitFrom(_, _, _)
\* str.split(sep) for a one-character sep: cur is the field being read.
SplitFrom(s, sep, cur) ==
    IF s = <<>> THEN <<cur>>
    ELSE IF Head(s) = sep THEN <<cur>> \o SplitFrom(Tail(s), sep, <<>>)
    ELSE SplitFrom(Tail(s), sep, Append(cur, Head(s)))

Split(s, sep) == SplitFrom(s, sep, <<>>)

RECURSIVE Join(_, _)
\* sep.join(list)
Join(list, sep) ==
    IF list = <<>> THEN <<>>
    ELSE IF Len(list) = 1 THEN list[1]
    ELSE list[1] \o <<sep>> \o Join(Tail(list), sep)

\* file.read().splitlines(), for text whose only line break is "\n".
SplitLines(text) == IF text = <<>> THEN <<>> ELSE Split(text, "\n")

RECURSIVE SortedSeq(_)
\* The strings of a finite set in ascending order.
SortedSeq(S) ==
    IF S = {} THEN <<>>
    ELSE LET m == CHOOSE x \in S : \A y \in S \ {x} : StrLess(x, y)
         IN  <<m>> \o SortedSeq(S \ {m})

Range(f) == {f[i] : i \in DOMAIN f}

(***************************************************************************)
(* Input rows and the hierarchy built from them.                           *)
(***************************************************************************)
Row(c, b, y, w, v) ==
    [Container |-> c, Box |-> b, Cylinder |-> y, weight |-> w, volume |-> v]

\* An input with three solutions that satisfy the model as built, and a
\* fourth the validator accepts: one box of A unused, the volume 2.004.
RowsLinked ==
    << Row(<<"A">>, <<"1">>, <<"1">>, 2000,  500),
       Row(<<"A">>, <<"2">>, <<"1">>, 1000,  500),
       Row(<<"B">>, <<"1">>, <<"1">>, 3000, 1000),
       Row(<<"B">>, <<"1">>, <<"2">>, 4000, 1504),
       Row(<<"C">>, <<"1">>, <<"1">>, 3000, 1000) >>

\* An input in which assignments meet the totals with one or three
\* containers, with two cylinders of one box, or with a cylinder whose
\* container is not selected.
RowsLoose ==
    << Row(<<"A">>, <<"1">>, <<"1">>, 4000, 1500),
       Row(<<"A">>, <<"2">>, <<"1">>, 2000,  500),
       Row(<<"B">>, <<"1">>, <<"1">>, 3000, 1000),
       Row(<<"B">>, <<"1">>, <<"2">>, 1000,  500),
       Row(<<"C">>, <<"1">>, <<"1">>, 3000, 1000) >>

\* The spreadsheets considered: one row per cylinder, weight and volume in
\* thousandths.
Sheets == <<RowsLinked, RowsLoose>>

container_id(row) == row.Container

\* Faulty variant: a box is known by its own label alone.
box_idLocal(row) == row.Box

box_id(row) == container_id(row) \o <<"|">> \o row.Box

cylinder_id(row) == box_id(row) \o <<"|">> \o row.Cylinder

\* The cylinder object a row constructs; obj tells apart the objects of
\* rows that give the same identifier.
Cylinder(row, obj) ==
    [identifier |-> cylinder_id(row),
     weight     |-> row.weight,
     volume     |-> row.volume,
     box        |-> box_id(row),
     obj        |-> obj]

\* The dictionaries before the first row.  Lists and dictionaries keep
\* insertion order; boxesOf, cylsOf and containerOf are the attributes
\* boxes, cylinders and container of the object at the same position.
EmptyHierarchy ==
    [containers  |-> <<>>,      \* keys of the dictionary containers
     boxesOf     |-> <<>>,      \* container.boxes, as box identifiers
     boxes       |-> <<>>,      \* keys of the dictionary boxes
     cylsOf      |-> <<>>,      \* box.cylinders, as cylinder objects
     containerOf |-> <<>>,      \* box.container, as container identifier
     cylinders   |-> <<>>]      \* the dictionary cylinders: <<key, object>>

IndexOf(seq, x) == CHOOSE i \in 1..Len(seq) : seq[i] = x

\* One iteration of the construction loop, for the row numbered obj.
AddRow(h, row, obj) ==
    LET cid  == container_id(row)
        bid  == box_id(row)
        cyl  == Cylinder(row, obj)
        newC == cid \notin Range(h.containers)
        newB == bid \notin Range(h.boxes)
        containers1 == IF newC THEN Append(h.containers, cid) ELSE h.containers
        boxesOf1    == IF newC THEN Append(h.boxesOf, <<>>) ELSE h.boxesOf
        boxes1      == IF newB THEN Append(h.boxes, bid) ELSE h.boxes
        cylsOf1     == IF newB THEN Append(h.cylsOf, <<>>) ELSE h.cylsOf
        old == {k \in 1..Len(h.cylinders) : h.cylinders[k][1] = cyl.identifier}
    IN  [containers  |-> containers1,
         boxesOf     |-> IF newB
                         THEN [boxesOf1 EXCEPT ![IndexOf(containers1, cid)] =
                                                  Append(@, bid)]
                         ELSE boxesOf1,
         boxes       |-> boxes1,
         cylsOf      |-> [cylsOf1 EXCEPT ![IndexOf(boxes1, bid)] = Append(@, cyl)],
         containerOf |-> IF newB THEN Append(h.containerOf, cid)
                                 ELSE h.containerOf,
         cylinders   |-> IF old = {}
                         THEN Append(h.cylinders, <<cyl.identifier, cyl>>)
                         ELSE [h.cylinders EXCEPT ![CHOOSE k \in old : TRUE] =
                                                     <<cyl.identifier, cyl>>]]

RECURSIVE BuildHierarchy(_, _)
\* The dictionaries after the first n rows.
BuildHierarchy(rows, n) ==
    IF n = 0 THEN EmptyHierarchy
    ELSE CHOOSE h1 \in {AddRow(h, rows[n], n) : h \in {BuildHierarchy(rows, n - 1)}} :
            TRUE

\* The construction loop over all the rows of the data frame.
ConstructInstances(rows) == BuildHierarchy(rows, Len(rows))

\* The dictionaries built from each spreadsheet.
Hierarchies == <<ConstructInstances(Sheets[1]), ConstructInstances(Sheets[2])>>

VARIABLES
    sheet,                       \* which spreadsheet was read
    pc,                          \* the cell or statement to run next
    files,                       \* Solutions/<key>.txt: key -> text
    pulp_status_solve,           \* status of the last solve
    varValue,                    \* values the last solve left in the variables
    exclusions,                  \* constraints appended to problem by the loop
    all_optimal_solutions,       \* the set of solution strings seen
    counter_different_solutions, \* the loop's counter
    accepted,                    \* history: what evaluate_solution returned
    written,                     \* history: keys written, in order
    evalCalls,                   \* history: calls of evaluate_solution
    solveCalls,                  \* history: calls of problem.solve
    files0,                      \* history: the files before the run
    input,                       \* the arguments of a function called on its own
    output                       \* what that call returned

vars == <<sheet, pc, files, pulp_status_solve, varValue,
          exclusions, all_optimal_solutions, counter_different_solutions,
          accepted, written, evalCalls, solveCalls, files0, input, output>>

\* The rows read from the spreadsheet.
data_frame == Sheets[sheet]

\* The dictionaries containers, boxes and cylinders after construction.
Hierarchy == Hierarchies[sheet]

\* containers.keys(), cylinders.keys()
ContainerIds == Range(Hierarchy.containers)

CylinderIds == {p[1] : p \in Range(Hierarchy.cylinders)}

\* containers[name].boxes
BoxesOfContainer(name) ==
    Hierarchy.boxesOf[IndexOf(Hierarchy.containers, name)]

\* box.cylinders
CylindersOfBox(bid) == Hierarchy.cylsOf[IndexOf(Hierarchy.boxes, bid)]

\* box.container
ContainerOfBox(bid) == Hierarchy.containerOf[IndexOf(Hierarchy.boxes, bid)]

\* cylinders[name]
CylinderByName(name) ==
    (CHOOSE p \in Range(Hierarchy.cylinders) : p[1] = name)[2]

(***************************************************************************)
(* The optimization model: one binary variable per container and per       *)
(* cylinder, the base constraints, and the exclusion constraints appended  *)
(* by the search loop.                                                     *)
(***************************************************************************)
\* The names of the problem's variables.
VariableNames == ContainerIds \cup CylinderIds

\* The names of the variables of each spreadsheet's problem, ascending.
VariableLists ==
    << SortedSeq(Range(Hierarchies[1].containers)
                   \cup {p[1] : p \in Range(Hierarchies[1].cylinders)}),
       SortedSeq(Range(Hierarchies[2].containers)
                   \cup {p[1] : p \in Range(Hierarchies[2].cylinders)}) >>

\* problem.variables(): the variables in ascending order of their names.
ProblemVariables == VariableLists[sheet]

\* Every assignment of 0/1 values to the variables.
Assignments == [VariableNames -> {0, 1}]

\* cylinder.variable.varValue of a cylinder object
CylValue(vals, cylinder) == vals[cylinder.identifier]

RECURSIVE SumValues(_, _)
\* Item.sum_variables(list_of_items) under an assignment, for cylinder objects.
SumValues(vals, objs) ==
    IF objs = <<>> THEN 0
    ELSE CylValue(vals, Head(objs)) + SumValues(vals, Tail(objs))

RECURSIVE SumContainerValues(_, _)
\* Item.sum_variables(containers.values()) under an assignment.
SumContainerValues(vals, ids) ==
    IF ids = <<>> THEN 0 ELSE vals[Head(ids)] + SumContainerValues(vals, Tail(ids))

\* What stands for the result of a call that raised an exception.
Raised == <<>>

RECURSIVE ColumnSums(_, _)
\* np.sum(numpy_array, axis=0) for the array of the rows
\* (volume * variable, weight * variable) of a non-empty list, under an
\* assignment: one sum for each of the two columns.
ColumnSums(vals, objs) ==
    IF objs = <<>> THEN <<0, 0>>
    ELSE LET c    == Head(objs)
             rest == ColumnSums(vals, Tail(objs))
         IN  << c.volume * vals[c.identifier] + rest[1],
                c.weight * vals[c.identifier] + rest[2] >>

\* Item.volume_weight_times_cylinders_vars of src/unnamed/part_000 under an
\* assignment.  For the empty list np.asarray gives an array of shape (0,),
\* its sum along axis 0 is a scalar, and result[0] raises IndexError.
VolumeWeightTimes(vals, objs) ==
    IF objs = <<>> THEN Raised ELSE ColumnSums(vals, objs)

\* np.sum(numpy_array, axis=1)[k - 1]: the sum of the row of one cylinder.
RowSum(vals, c) == c.volume * vals[c.identifier] + c.weight * vals[c.identifier]

\* Item.volume_weight_times_cylinders_vars of src/main.ipynb under an
\* assignment: the sum runs along axis 1, so result holds one number for
\* each cylinder, and result[0], result[1] are those of the first two.
\* With fewer than two cylinders the call raises (no axis 1, or no
\* result[1]).
VolumeWeightTimesMain(vals, objs) ==
    IF Len(objs) < 2 THEN Raised
    ELSE <<RowSum(vals, objs[1]), RowSum(vals, objs[2])>>

RECURSIVE Pow10(_)
Pow10(n) == IF n = 0 THEN 1 ELSE 10 * Pow10(n - 1)

\* Thousandths per unit of the rounded precision.
RoundUnit == Pow10(InputDigits - DIGITS_PRECISION)

\* cylinders.values(): the cylinder objects in insertion order.
AllCylinderObjs == [k \in 1..Len(Hierarchy.cylinders) |-> Hierarchy.cylinders[k][2]]

\* Faulty variant: a cylinder may be chosen in a box of a container that is
\* not chosen.
LinkingConstraintsNoUpperLink(container_variable, vals, cylinders) ==
    LET sum_cylinders_of_box_vars == SumValues(vals, cylinders)
    IN  /\ container_variable <= sum_cylinders_of_box_vars
        /\ sum_cylinders_of_box_vars <= 1

\* Faulty variant: a chosen container need not have a chosen cylinder.
LinkingConstraintsNoLowerLink(container_variable, vals, cylinders) ==
    LET sum_cylinders_of_box_vars == SumValues(vals, cylinders)
    IN  /\ Len(cylinders) * container_variable >= sum_cylinders_of_box_vars
        /\ sum_cylinders_of_box_vars <= 1

\* The three constraints the body of the loop over the boxes adds for a box
\* with the given cylinders, under an assignment.
LinkingConstraints(container_variable, vals, cylinders) ==
    LET sum_cylinders_of_box_vars == SumValues(vals, cylinders)
    IN  /\ container_variable <= sum_cylinders_of_box_vars
        /\ Len(cylinders) * container_variable >= sum_cylinders_of_box_vars
        /\ sum_cylinders_of_box_vars <= 1

\* The two constraints src/main.ipynb adds for a box.
LinkingConstraintsMain(container_variable, vals, cylinders) ==
    LET sum_cylinders_of_box_vars == SumValues(vals, cylinders)
    IN  /\ Len(cylinders) * container_variable >= sum_cylinders_of_box_vars
        /\ sum_cylinders_of_box_vars <= 1

\* The three linking constraints of one box.
BoxConstraints(vals, cid, bid) ==
    LinkingConstraints(vals[cid], vals, CylindersOfBox(bid))

\* The constraints of the model as first built.
BaseConstraints(vals) ==
    LET vw == VolumeWeightTimes(vals, AllCylinderObjs)
    IN  /\ SumContainerValues(vals, Hierarchy.containers) = TOTAL_CONTAINERS
        /\ vw[1] = TOTAL_VOLUME * RoundUnit
        /\ vw[2] = TOTAL_WEIGHT * RoundUnit
        /\ \A c \in 1..Len(Hierarchy.containers) :
             \A b \in 1..Len(Hierarchy.boxesOf[c]) :
               BoxConstraints(vals, Hierarchy.containers[c], Hierarchy.boxesOf[c][b])

\* Faulty variant: the whole set may be chosen again.
ExclusionBoundWeak(objs) == Len(objs)

\* Right-hand side of the constraint excluding an accepted solution.
ExclusionBound(objs) == Len(objs) - 1

\* The constraint appended after a solution is accepted:
\* sum of its cylinders' variables <= len - 1.
ExclusionConstraint(objs) == [items |-> objs, rhs |-> ExclusionBound(objs)]

SatisfiesExclusion(vals, con) == SumValues(vals, con.items) <= con.rhs

\* The assignments that satisfy the model with the appended constraints.
Feasible(excl) ==
    {vals \in Assignments :
        /\ BaseConstraints(vals)
        /\ \A k \in 1..Len(excl) : SatisfiesExclusion(vals, excl[k])}

(***************************************************************************)
(* evaluate_solution: the validator.                                       *)
(***************************************************************************)
\* round(x, DIGITS_PRECISION) of a non-negative number in thousandths,
\* in hundredths; an exact tie goes to the even neighbour.
Round(x) ==
    LET q == x \div RoundUnit
        r == x % RoundUnit
    IN  IF 2 * r < RoundUnit THEN q
        ELSE IF 2 * r > RoundUnit THEN q + 1
        ELSE IF q % 2 = 0 THEN q ELSE q + 1

\* The locals of evaluate_solution before its loop.
EvalStart ==
    [used_containers      |-> {},
     sum_volumes          |-> 0,
     sum_weights          |-> 0,
     used_boxes           |-> {},
     chosen_cylinders_ids |-> <<>>,
     chosen_cylinders     |-> <<>>,
     returned             |-> FALSE]

\* The inner loops over a chosen container's boxes and their cylinders.
HasChosenCylinder(vals, name) ==
    \E b \in 1..Len(BoxesOfContainer(name)) :
       LET cyls == CylindersOfBox(BoxesOfContainer(name)[b])
       IN  \E k \in 1..Len(cyls) : CylValue(vals, cyls[k]) = 1

\* The body of the loop for a variable that is a container.
VisitContainer(vals, name, acc) ==
    LET acc1 == [acc EXCEPT !.used_containers = @ \cup {name}]
    IN  IF ~HasChosenCylinder(vals, name)
        THEN [acc1 EXCEPT !.returned = TRUE]
        ELSE acc1

\* Faulty variant: the upward check is left out.
ContainerOfCylinderChosenSkipped(vals, obj) == TRUE

\* cylinder.box.container.variable.varValue == 1
ContainerOfCylinderChosen(vals, obj) ==
    vals[ContainerOfBox(obj.box)] = 1

\* Faulty variant: the box of a cylinder is never seen as used before.
BoxAlreadyUsedNever(used_boxes, container_box_identifier) == FALSE

\* container_box_identifier in used_boxes
BoxAlreadyUsed(used_boxes, container_box_identifier) ==
    container_box_identifier \in used_boxes

\* The body of the loop for a variable that is a cylinder.
VisitCylinder(vals, name, split_variable_name, acc) ==
    LET cylinder == CylinderByName(name)
        acc1 == [acc EXCEPT
                   !.chosen_cylinders_ids = Append(@, cylinder.identifier),
                   !.chosen_cylinders     = Append(@, cylinder),
                   !.sum_volumes          = @ + cylinder.volume,
                   !.sum_weights          = @ + cylinder.weight]
        container_box_identifier ==
            split_variable_name[1] \o <<"|">> \o split_variable_name[2]
    IN  IF ~ContainerOfCylinderChosen(vals, cylinder)
        THEN [acc1 EXCEPT !.returned = TRUE]
        ELSE IF ~BoxAlreadyUsed(acc1.used_boxes, container_box_identifier)
        THEN [acc1 EXCEPT !.used_boxes = @ \cup {container_box_identifier}]
        ELSE [acc1 EXCEPT !.returned = TRUE]

\* The body of the loop over problem.variables().
VisitVariable(vals, name, acc) ==
    IF vals[name] = 1
    THEN LET split_variable_name == Split(name, "|")
         IN  IF Len(split_variable_name) = 1
             THEN VisitContainer(vals, name, acc)
             ELSE VisitCylinder(vals, name, split_variable_name, acc)
    ELSE acc

RECURSIVE ScanVariables(_, _, _)
\* The loop over problem.variables() from position k on; it stops at the
\* first return.
ScanVariables(vals, k, acc) ==
    IF k > Len(ProblemVariables) \/ acc.returned THEN acc
    ELSE ScanVariables(vals, k + 1, VisitVariable(vals, ProblemVariables[k], acc))

\* Faulty variant: the rounded sums are not compared with the targets.
TotalsMatchCountOnly(acc) == Cardinality(acc.used_containers) = TOTAL_CONTAINERS

\* Faulty variant: the number of containers is not compared with the target.
TotalsMatchSumsOnly(acc) ==
    /\ Round(acc.sum_volumes) = TOTAL_VOLUME
    /\ Round(acc.sum_weights) = TOTAL_WEIGHT

\* The final check of the three totals, after rounding.
TotalsMatch(acc) ==
    /\ Cardinality(acc.used_containers) = TOTAL_CONTAINERS
    /\ Round(acc.sum_volumes) = TOTAL_VOLUME
    /\ Round(acc.sum_weights) = TOTAL_WEIGHT

\* Faulty variant: no solution is ever seen as stored before.
IsDuplicateNever(solution_string, seen) == FALSE

\* solution_string in all_optimal_solutions
IsDuplicate(solution_string, seen) == solution_string \in seen

\* return None, the set all_optimal_solutions being left as given.
ReturnNone(seen) ==
    [is_none                  |-> TRUE,
     optimal_solution         |-> <<>>,
     optimal_cylinder_objects |-> <<>>,
     all_optimal_solutions    |-> seen]

\* evaluate_solution(problem) with the values the solver left in the
\* variables and the set all_optimal_solutions: what it returns (None, or
\* the chosen identifiers and objects) and the set as it leaves it.
evaluate_solution(vals, seen) ==
    LET acc == ScanVariables(vals, 1, EvalStart)
        solution_string == Join(acc.chosen_cylinders_ids, ",")
    IN  IF acc.returned
        THEN ReturnNone(seen)
        ELSE IF IsDuplicate(solution_string, seen)
        THEN ReturnNone(seen)
        ELSE IF TotalsMatch(acc)
        THEN [is_none                  |-> FALSE,
              optimal_solution         |-> acc.chosen_cylinders_ids,
              optimal_cylinder_objects |-> acc.chosen_cylinders,
              all_optimal_solutions    |-> seen \cup {solution_string}]
        ELSE ReturnNone(seen \cup {solution_string})

(***************************************************************************)
(* The solver, the files of the folder Solutions, and the search loop.     *)
(***************************************************************************)
\* The text of a file a previous run left behind.
StaleText == <<"C", "|", "1", "|", "1">>

\* The folder before the run: a previous run may have left any of its files.
InitialFiles ==
    {[k \in K |-> StaleText] : K \in SUBSET (1..(MAX_DIFFERENT_SOLUTIONS + 1))}

\* problem.solve(solver_object) by a solver that is not trusted: any status,
\* any 0/1 values.  A status other than optimal leaves values nobody reads.
SolveAny(excl, vals) ==
    {[status |-> LpStatusOptimal, values |-> v] : v \in Assignments}
      \cup {[status |-> LpStatusInfeasible, values |-> vals]}

\* problem.solve(solver_object) by an exact solver: optimal with a feasible
\* assignment, infeasible when there is none.
SolveExact(excl, vals) ==
    IF Feasible(excl) # {}
    THEN {[status |-> LpStatusOptimal, values |-> v] : v \in Feasible(excl)}
    ELSE {[status |-> LpStatusInfeasible, values |-> vals]}

Solve(exact, excl, vals) ==
    IF exact THEN SolveExact(excl, vals) ELSE SolveAny(excl, vals)

\* Faulty variant: the sentinel file is never found.
LastFileIsFileNever(fs) == FALSE

\* last_file.is_file()
LastFileIsFile(fs) == (MAX_DIFFERENT_SOLUTIONS + 1) \in DOMAIN fs

\* Faulty variant: the loop has no cap.
WhileConditionNoCap(status, counter) == status = LpStatusOptimal

\* Faulty variant: the loop runs while the counter is below the cap.
WhileConditionStrict(status, counter) ==
    status = LpStatusOptimal /\ counter < MAX_DIFFERENT_SOLUTIONS

\* Faulty variant: the status of the solve is not looked at.
WhileConditionNoStatus(status, counter) == counter <= MAX_DIFFERENT_SOLUTIONS

\* The condition of the while loop.
WhileCondition(status, counter) ==
    status = LpStatusOptimal /\ counter <= MAX_DIFFERENT_SOLUTIONS

\* Faulty variant: the files are numbered from zero.
SolutionKeyZeroBased(counter) == counter

\* The number the loop passes to write_optimal_solution.
SolutionKey(counter) == counter + 1

\* write_optimal_solution(optimal_solution, counter_solution): the folder
\* after the file is created or overwritten.
write_optimal_solution(fs, optimal_solution, counter_solution) ==
    [k \in DOMAIN fs \cup {counter_solution} |->
        IF k = counter_solution THEN Join(optimal_solution, "\n") ELSE fs[k]]

\* The state once the cells up to the construction of the model have run.
\* The counter is unbound until the search cell assigns it; 0 stands for it.
Init ==
    /\ sheet \in DOMAIN Sheets
    /\ pc = "solve"
    /\ files \in InitialFiles
    /\ files0 = files
    /\ pulp_status_solve = LpStatusNotSolved
    /\ varValue = [n \in Range(Hierarchies[sheet].containers)
                     \cup {p[1] : p \in Range(Hierarchies[sheet].cylinders)} |-> 0]
    /\ exclusions = <<>>
    /\ all_optimal_solutions = {}
    /\ counter_different_solutions = 0
    /\ accepted = <<>>
    /\ written = <<>>
    /\ evalCalls = 0
    /\ solveCalls = 0
    /\ input = <<>>
    /\ output = <<>>

\* The cell "Solving the MIP": the first solve of the model as built.
SolveCell(exact) ==
    /\ pc = "solve"
    /\ \E res \in Solve(exact, exclusions, varValue) :
         /\ pulp_status_solve' = res.status
         /\ varValue' = res.values
    /\ solveCalls' = solveCalls + 1
    /\ pc' = "search"
    /\ UNCHANGED <<sheet, files, exclusions,
                   all_optimal_solutions, counter_different_solutions,
                   accepted, written, evalCalls, files0, input, output>>

\* The head of the search cell: the test of the last file and the counter.
SearchCell ==
    /\ pc = "search"
    /\ IF ~LastFileIsFile(files)
       THEN /\ counter_different_solutions' = 0
            /\ pc' = "while"
       ELSE /\ pc' = "done"
            /\ UNCHANGED counter_different_solutions
    /\ UNCHANGED <<sheet, files, pulp_status_solve, varValue,
                   exclusions, all_optimal_solutions, accepted, written,
                   evalCalls, solveCalls, files0, input, output>>

\* The branch of the loop body for a solution that was returned: write it,
\* append the exclusion constraint, solve again, count.
AcceptAndReinforce(exact, solution_return) ==
    LET optimal_solution         == solution_return.optimal_solution
        optimal_cylinder_objects == solution_return.optimal_cylinder_objects
        key == SolutionKey(counter_different_solutions)
    IN  /\ files' = write_optimal_solution(files, optimal_solution, key)
        /\ written' = Append(written, key)
        /\ exclusions' =
              Append(exclusions, ExclusionConstraint(optimal_cylinder_objects))
        /\ \E res \in Solve(exact, exclusions', varValue) :
             /\ pulp_status_solve' = res.status
             /\ varValue' = res.values
        /\ solveCalls' = solveCalls + 1
        /\ counter_different_solutions' = counter_different_solutions + 1
        /\ accepted' = Append(accepted,
                          [optimal_solution         |-> optimal_solution,
                           optimal_cylinder_objects |-> optimal_cylinder_objects,
                           varValue                 |-> varValue])
        /\ pc' = "while"

\* Leaving the loop: by its condition or by the break.
LeaveLoop ==
    /\ pc' = "done"
    /\ UNCHANGED <<files, pulp_status_solve, varValue, exclusions,
                   counter_different_solutions, accepted, written, solveCalls>>

\* One test of the while condition and, when it holds, one run of the body.
WhileIteration(exact) ==
    /\ pc = "while"
    /\ IF WhileCondition(pulp_status_solve, counter_different_solutions)
       THEN LET solution_return ==
                    evaluate_solution(varValue, all_optimal_solutions)
            IN  /\ evalCalls' = evalCalls + 1
                /\ all_optimal_solutions' = solution_return.all_optimal_solutions
                /\ IF ~solution_return.is_none
                   THEN AcceptAndReinforce(exact, solution_return)
                   ELSE LeaveLoop
       ELSE /\ LeaveLoop
            /\ UNCHANGED <<evalCalls, all_optimal_solutions>>
    /\ UNCHANGED <<sheet, files0, input, output>>

\* The solver is not trusted: the validator sees every assignment.
Next == SolveCell(FALSE) \/ SearchCell \/ WhileIteration(FALSE)

Spec == Init /\ [][Next]_vars

\* The solver is exact: it returns the feasible assignments of the model.
NextExact == SolveCell(TRUE) \/ SearchCell \/ WhileIteration(TRUE)

SpecExact == Init /\ [][NextExact]_vars

(***************************************************************************)
(* Functions of the model construction called with arguments of their own: *)
(* the run of the notebook is left aside.                                  *)
(***************************************************************************)
\* The variables of the run, left aside.
Parked ==
    /\ sheet = 1
    /\ pc = "done"
    /\ files = <<>>
    /\ files0 = <<>>
    /\ pulp_status_solve = LpStatusNotSolved
    /\ varValue = <<>>
    /\ exclusions = <<>>
    /\ all_optimal_solutions = {}
    /\ counter_different_solutions = 0
    /\ accepted = <<>>
    /\ written = <<>>
    /\ evalCalls = 0
    /\ solveCalls = 0

ParkedUnchanged ==
    UNCHANGED <<sheet, pc, files, files0, pulp_status_solve, varValue,
                exclusions, all_optimal_solutions, counter_different_solutions,
                accepted, written, evalCalls, solveCalls>>

\* Bound on the length of the list passed to
\* volume_weight_times_cylinders_vars.
MaxList == 3

\* The volumes and weights of the cylinders of such a list, in thousandths.
Volumes == {1000, 2000}

Weights == {3000, 5000}

\* A list of n cylinders, each identified by its position, with the values
\* of their variables.
ListOfCylinders(n, vw, x) ==
    [list_of_cylinders |->
        [k \in 1..n |-> [identifier |-> k, volume |-> vw[k][1], weight |-> vw[k][2]]],
     values |-> x]

InitSums ==
    /\ Parked
    /\ \E short \in 0..MaxList :
         LET n == MaxList - short
         IN  \E vw \in [1..n -> Volumes \X Weights], x \in [1..n -> {0, 1}] :
                input = ListOfCylinders(n, vw, x)
    /\ output = [called |-> FALSE]

\* One call of volume_weight_times_cylinders_vars as each file defines it.
CallVolumeWeightTimes ==
    /\ ~output.called
    /\ output' =
          [called   |-> TRUE,
           part_000 |-> VolumeWeightTimes(input.values, input.list_of_cylinders),
           main     |-> VolumeWeightTimesMain(input.values, input.list_of_cylinders)]
    /\ UNCHANGED input
    /\ ParkedUnchanged

NextSums == CallVolumeWeightTimes

SpecSums == InitSums /\ [][NextSums]_vars

\* Bound on the number of cylinders of the box whose constraints are built.
MaxBox == 5

\* A container variable with its value, and a box of n cylinders, each
\* identified by its position, with the values of their variables.
BoxOfCylinders(c, n, x) ==
    [container_variable |-> c,
     cylinders          |-> [k \in 1..n |-> [identifier |-> k]],
     values             |-> x]

InitBox ==
    /\ Parked
    /\ \E c \in {0, 1}, n \in 0..MaxBox :
         \E x \in [1..n -> {0, 1}] : input = BoxOfCylinders(c, n, x)
    /\ output = [called |-> FALSE]

\* The body of the loop over the boxes, for one box: whether the values
\* satisfy the constraints it adds.
AddLinkingConstraints ==
    /\ ~output.called
    /\ output' =
          [called    |-> TRUE,
           satisfied |-> LinkingConstraints(input.container_variable,
                                            input.values, input.cylinders)]
    /\ UNCHANGED input
    /\ ParkedUnchanged

NextBox == AddLinkingConstraints

SpecBox == InitBox /\ [][NextBox]_vars

\* Bound on the number of rows of the data frame the construction loop reads.
MaxRows == 3

\* The labels a row may carry in its columns; some hold the separator.
ContainerLabels == {<<"A">>, <<"B">>, <<"A", "|", "1">>}

BoxLabels == {<<"1">>, <<"2">>, <<"1", "|", "1">>}

CylinderLabels == {<<"1">>, <<"2">>}

\* The rows a data frame may hold.
RowChoices ==
    {Row(c, b, y, 1000, 1000) :
        c \in ContainerLabels, b \in BoxLabels, y \in CylinderLabels}

\* Before the construction loop: no row read (input), empty dictionaries
\* (output).
InitRows ==
    /\ Parked
    /\ input = <<>>
    /\ output = EmptyHierarchy

\* One iteration of the construction loop, for the next row of the data
\* frame.
ReadRow ==
    /\ Len(input) < MaxRows
    /\ \E row \in RowChoices :
         /\ input' = Append(input, row)
         /\ output' = AddRow(output, row, Len(input) + 1)
    /\ ParkedUnchanged

NextRows == ReadRow

SpecRows == InitRows /\ [][NextRows]_vars

(***************************************************************************)
(* Properties of the accepted solutions.                                   *)
(***************************************************************************)
\* The containers and the cylinder objects an assignment selects.
SelectedContainers(vals) == {c \in ContainerIds : vals[c] = 1}

SelectedCylinders(vals) == {y \in Range(AllCylinderObjs) : vals[y.identifier] = 1}

\* The cylinder objects of a container, over all its boxes.
CylindersOfContainer(c) ==
    {y \in Range(AllCylinderObjs) : ContainerOfBox(y.box) = c}

RECURSIVE SumOver(_, _)
\* The sum of an attribute (as a function of the object) over a set.
SumOver(S, attr) ==
    IF S = {} THEN 0
    ELSE LET y == CHOOSE x \in S : TRUE
         IN  attr[y] + SumOver(S \ {y}, attr)

VolumeOf == [y \in Range(AllCylinderObjs) |-> y.volume]

WeightOf == [y \in Range(AllCylinderObjs) |-> y.weight]

\* The positions of the accepted solutions.
AcceptedIndices == 1..Len(accepted)

\* C1: every accepted solution selects exactly TOTAL_CONTAINERS distinct
\* containers, after any number of iterations of the search.
C1_ContainerCount ==
    \A i \in AcceptedIndices :
        Cardinality(SelectedContainers(accepted[i].varValue)) = TOTAL_CONTAINERS

\* Two solutions were accepted, each with the target number of containers,
\* and they do not select the same containers.
C1_Witness ==
    /\ Len(accepted) >= 2
    /\ SelectedContainers(accepted[1].varValue)
          # SelectedContainers(accepted[2].varValue)

\* C2: in every accepted solution the volumes of the selected cylinders sum
\* to the target volume and their weights to the target weight, both after
\* rounding to two decimal digits.
C2_RoundedTotals ==
    \A i \in AcceptedIndices :
        LET chosen == SelectedCylinders(accepted[i].varValue)
        IN  /\ Round(SumOver(chosen, VolumeOf)) = TOTAL_VOLUME
            /\ Round(SumOver(chosen, WeightOf)) = TOTAL_WEIGHT

\* A solution was accepted whose volumes meet the target only after
\* rounding.
C2_Witness ==
    \E i \in AcceptedIndices :
        LET chosen == SelectedCylinders(accepted[i].varValue)
        IN  /\ SumOver(chosen, VolumeOf) # TOTAL_VOLUME * RoundUnit
            /\ Round(SumOver(chosen, VolumeOf)) = TOTAL_VOLUME

\* Two selected cylinders of the assignment are in the same box.
TwoInOneBox(vals) ==
    \E y, z \in SelectedCylinders(vals) : y # z /\ y.box = z.box

\* C3: no accepted solution has two selected cylinders in the same box:
\* whatever else holds of an assignment with two selected cylinders in one
\* box, evaluate_solution returns None for it.
C3_BoxExclusivity ==
    /\ \A i \in AcceptedIndices : ~TwoInOneBox(accepted[i].varValue)
    /\ (pc = "while" /\ TwoInOneBox(varValue))
          => evaluate_solution(varValue, all_optimal_solutions).is_none

\* The validator is about to see an assignment with two selected cylinders
\* in one box that meets the three totals and selects, for each cylinder,
\* its container.
C3_Witness ==
    /\ pc = "while"
    /\ WhileCondition(pulp_status_solve, counter_different_solutions)
    /\ TwoInOneBox(varValue)
    /\ Cardinality(SelectedContainers(varValue)) = TOTAL_CONTAINERS
    /\ Round(SumOver(SelectedCylinders(varValue), WeightOf)) = TOTAL_WEIGHT
    /\ \A y \in SelectedCylinders(varValue) : varValue[ContainerOfBox(y.box)] = 1

\* A container is selected exactly when one of its cylinders is.
Linked(vals) ==
    \A c \in ContainerIds :
        vals[c] = 1 <=> (CylindersOfContainer(c) \cap SelectedCylinders(vals) # {})

\* C4: in every accepted solution a container is selected if and only if
\* at least one cylinder in one of its boxes is selected.
C4_Consistency == \A i \in AcceptedIndices : Linked(accepted[i].varValue)

\* A solution was accepted in which a selected container has a box with
\* no selected cylinder.
C4_Witness ==
    \E i \in AcceptedIndices :
        \E c \in SelectedContainers(accepted[i].varValue) :
            \E b \in Range(BoxesOfContainer(c)) :
                Range(CylindersOfBox(b))
                    \cap SelectedCylinders(accepted[i].varValue) = {}

\* C5: no two accepted solutions of a run have the same ordered list of
\* cylinder identifiers, and evaluate_solution returns None for the
\* assignment of every solution accepted so far.
C5_Unique ==
    /\ \A i, j \in AcceptedIndices :
          i # j => accepted[i].optimal_solution # accepted[j].optimal_solution
    /\ \A i \in AcceptedIndices :
          evaluate_solution(accepted[i].varValue, all_optimal_solutions).is_none

\* After a solution was accepted the solver returned the same assignment
\* again, and the validator is about to see it.
C5_Witness ==
    /\ pc = "while"
    /\ WhileCondition(pulp_status_solve, counter_different_solutions)
    /\ \E i \in AcceptedIndices : accepted[i].varValue = varValue

(***************************************************************************)
(* Properties of the search loop.                                          *)
(***************************************************************************)
\* C6: with an exact solver, once a solution is accepted and its exclusion
\* constraint appended, every later optimal result selects a set of
\* cylinders that is no superset of an accepted set (so it differs from
\* each of them); the only other result is infeasible.
C6_ExcludedForGood ==
    /\ pc # "solve" => pulp_status_solve \in {LpStatusOptimal, LpStatusInfeasible}
    /\ pulp_status_solve = LpStatusOptimal =>
          \A i \in AcceptedIndices :
              ~(Range(accepted[i].optimal_cylinder_objects)
                    \subseteq SelectedCylinders(varValue))

\* Two solutions were accepted and the solver returned a third one.
C6_Witness ==
    /\ Len(accepted) >= 2
    /\ pc = "while"
    /\ pulp_status_solve = LpStatusOptimal

\* The file of solution MAX_DIFFERENT_SOLUTIONS + 1 was there before the run.
SentinelAtStart == (MAX_DIFFERENT_SOLUTIONS + 1) \in DOMAIN files0

\* Every result the solver gave was optimal and every one the validator saw
\* was accepted.
OracleKeptDelivering ==
    /\ pulp_status_solve = LpStatusOptimal
    /\ evalCalls = Len(accepted)

\* C7: without the sentinel file and with a solver that keeps returning
\* valid, distinct solutions, the loop ends after accepting and writing
\* exactly MAX_DIFFERENT_SOLUTIONS + 1 solutions.
C7_CapPlusOne ==
    (pc = "done" /\ ~SentinelAtStart /\ OracleKeptDelivering) =>
        /\ Len(accepted) = MAX_DIFFERENT_SOLUTIONS + 1
        /\ counter_different_solutions = MAX_DIFFERENT_SOLUTIONS + 1
        /\ Len(written) = MAX_DIFFERENT_SOLUTIONS + 1
        /\ Range(written) = 1..(MAX_DIFFERENT_SOLUTIONS + 1)

\* The loop ended by its cap, the solver having returned one more solution.
C7_Witness ==
    /\ pc = "done"
    /\ ~SentinelAtStart
    /\ OracleKeptDelivering
    /\ Len(accepted) = MAX_DIFFERENT_SOLUTIONS + 1

\* What a step leaves alone when the loop stops.
NothingPersisted ==
    UNCHANGED <<files, written, exclusions, counter_different_solutions,
                accepted, solveCalls, pulp_status_solve, varValue>>

\* C8: the loop stops at the first status that is not optimal and at the
\* first rejection by the validator: the step leads to the end with no
\* solve, no file, no constraint and no change of the counter, and nothing
\* happens after the end.
C8_StopsWithoutRetry ==
    [][ /\ (pc = "while" /\ pulp_status_solve # LpStatusOptimal) =>
              /\ pc' = "done"
              /\ NothingPersisted
              /\ UNCHANGED <<evalCalls, all_optimal_solutions>>
        /\ ( /\ pc = "while"
             /\ WhileCondition(pulp_status_solve, counter_different_solutions)
             /\ evaluate_solution(varValue, all_optimal_solutions).is_none ) =>
              /\ pc' = "done"
              /\ NothingPersisted
        /\ pc = "done" => UNCHANGED vars ]_vars

\* The loop was stopped by a rejection that followed an acceptance.
C8_Witness ==
    /\ pc = "done"
    /\ Len(accepted) >= 1
    /\ evalCalls = Len(accepted) + 1
    /\ counter_different_solutions <= MAX_DIFFERENT_SOLUTIONS

\* C9: when the sentinel file exists as the search starts, the search is
\* skipped: evaluate_solution is not called, no file is written, no
\* constraint is appended and the set of seen solutions stays empty.
C9_SentinelSkips ==
    SentinelAtStart =>
        /\ evalCalls = 0
        /\ written = <<>>
        /\ files = files0
        /\ exclusions = <<>>
        /\ all_optimal_solutions = {}
        /\ accepted = <<>>
        /\ solveCalls <= 1

\* The search cell has run to its end with the sentinel file present and
\* a first solve that was optimal.
C9_Witness ==
    /\ SentinelAtStart
    /\ pc = "done"
    /\ pulp_status_solve = LpStatusOptimal

\* C10: the keys written in the run are 1..k in this order, k being the
\* number of accepted solutions, the value of the counter and the number
\* of exclusion constraints; file N holds the list of the N-th accepted
\* solution, and the other files are as they were.
C10_KeysInOrder ==
    LET k == Len(accepted)
    IN  /\ written = [n \in 1..k |-> n]
        /\ counter_different_solutions = k
        /\ Len(exclusions) = k
        /\ DOMAIN files = DOMAIN files0 \cup (1..k)
        /\ \A n \in 1..k :
              SplitLines(files[n]) = accepted[n].optimal_solution
        /\ \A key \in DOMAIN files \ (1..k) : files[key] = files0[key]

\* Three solutions were written, the first over a file of an earlier run.
C10_Witness ==
    /\ Len(accepted) = MAX_DIFFERENT_SOLUTIONS + 1
    /\ 1 \in DOMAIN files0
    /\ files[1] # files0[1]

(***************************************************************************)
(* Properties of the model construction.                                   *)
(***************************************************************************)
RECURSIVE SumOfProducts(_, _, _)
\* The sum over the positions 1..k of a list of attribute * value.
SumOfProducts(k, attr, x) ==
    IF k = 0 THEN 0 ELSE attr[k] * x[k] + SumOfProducts(k - 1, attr, x)

\* <<sum of volume_i * x_i, sum of weight_i * x_i>> over the whole list.
SumsOverAll(list, x) ==
    << SumOfProducts(Len(list), [k \in 1..Len(list) |-> list[k].volume], x),
       SumOfProducts(Len(list), [k \in 1..Len(list) |-> list[k].weight], x) >>

\* C11: for every list of cylinders, volume_weight_times_cylinders_vars
\* returns the sum over all of them of volume * variable and the sum over
\* all of them of weight * variable, in src/unnamed/part_000 and in
\* src/main.ipynb.
C11_SumsOverAllCylinders ==
    output.called =>
        /\ output.part_000 = SumsOverAll(input.list_of_cylinders, input.values)
        /\ output.main = SumsOverAll(input.list_of_cylinders, input.values)

\* The boxes of a container, and how many cylinders an assignment selects
\* in a box.
BoxIdsOfContainer(c) == Range(BoxesOfContainer(c))

BoxSum(vals, bid) == SumValues(vals, CylindersOfBox(bid))

\* C12: in the model as built, a selected container needs a selected
\* cylinder in only one of its boxes: when a selected container with
\* several boxes has exactly one selected cylinder, in one box, and none in
\* its other boxes, the linking constraints of all its boxes hold, and the
\* validator finds its chosen cylinder.
C12_OneBoxSuffices ==
    \A c \in SelectedContainers(varValue) :
        ( /\ Cardinality(BoxIdsOfContainer(c)) >= 2
          /\ Cardinality(CylindersOfContainer(c)
                            \cap SelectedCylinders(varValue)) = 1 )
        => /\ \A b \in BoxIdsOfContainer(c) : BoxConstraints(varValue, c, b)
           /\ HasChosenCylinder(varValue, c)

\* The linking constraints of every box hold, as src/unnamed/part_000 and
\* as src/main.ipynb build them.
LinkingHolds(vals) ==
    \A c \in ContainerIds : \A b \in BoxIdsOfContainer(c) :
        BoxConstraints(vals, c, b)

LinkingHoldsMain(vals) ==
    \A c \in ContainerIds : \A b \in BoxIdsOfContainer(c) :
        LinkingConstraintsMain(vals[c], vals, CylindersOfBox(b))

\* In every box the number of selected cylinders is at most the value of
\* the variable of its container.
BoxSumsBelowContainer(vals) ==
    \A c \in ContainerIds : \A b \in BoxIdsOfContainer(c) :
        /\ BoxSum(vals, b) <= vals[c]
        /\ BoxSum(vals, b) <= 1
        /\ vals[c] = 0 => BoxSum(vals, b) = 0

\* C13: every 0/1 assignment that satisfies the linking constraints of the
\* boxes, as either file builds them, has in every box a number S of
\* selected cylinders with S <= the value of the container's variable: at
\* most one per box, and none in a box of an unselected container.
C13_BoxSumBelowContainer ==
    /\ LinkingHolds(varValue) => BoxSumsBelowContainer(varValue)
    /\ LinkingHoldsMain(varValue) => BoxSumsBelowContainer(varValue)

\* The solver returned an assignment that satisfies the linking constraints
\* with a selected and an unselected container.
C13_Witness ==
    /\ pc = "while"
    /\ LinkingHolds(varValue)
    /\ SelectedContainers(varValue) # {}
    /\ SelectedContainers(varValue) # ContainerIds

\* C14: a box with zero cylinders satisfies its three linking constraints
\* with S = 0 whatever the value of its container's variable, so that it
\* restricts neither that variable nor the feasibility of the model.
C14_EmptyBoxUnrestricted ==
    (output.called /\ input.cylinders = <<>>) => output.satisfied

\* Where the cylinder object of row n is in the lists of the boxes, and
\* where a box is in the lists of the containers: <<list, position>>.
PlacesOfCylinder(h, n) ==
    {<<b, k>> \in (1..Len(h.boxes)) \X (1..MaxRows + 1) :
        k <= Len(h.cylsOf[b]) /\ h.cylsOf[b][k].obj = n}

PlacesOfBox(h, bid) ==
    {<<c, k>> \in (1..Len(h.containers)) \X (1..MaxRows + 1) :
        k <= Len(h.boxesOf[c]) /\ h.boxesOf[c][k] = bid}

\* The dictionaries h are a strict tree over the rows read: one container
\* and one box for each identifier met, every box in the list of exactly
\* one container, the cylinder of every row in the list of exactly one
\* box and in the dictionary cylinders, under the box and the container
\* its row names.
StrictTree(h, rows) ==
    /\ Range(h.containers) = {container_id(rows[n]) : n \in 1..Len(rows)}
    /\ Len(h.containers) = Cardinality(Range(h.containers))
    /\ Range(h.boxes) = {box_id(rows[n]) : n \in 1..Len(rows)}
    /\ Len(h.boxes) = Cardinality(Range(h.boxes))
    /\ \A b \in 1..Len(h.boxes) :
          /\ Cardinality(PlacesOfBox(h, h.boxes[b])) = 1
          /\ \A p \in PlacesOfBox(h, h.boxes[b]) :
                h.containers[p[1]] = h.containerOf[b]
    /\ \A n \in 1..Len(rows) :
          /\ Cardinality(PlacesOfCylinder(h, n)) = 1
          /\ \A p \in PlacesOfCylinder(h, n) :
                /\ h.boxes[p[1]] = box_id(rows[n])
                /\ h.containerOf[p[1]] = container_id(rows[n])
                /\ h.cylsOf[p[1]][p[2]] = Cylinder(rows[n], n)
          /\ \E k \in 1..Len(h.cylinders) :
                h.cylinders[k] = <<cylinder_id(rows[n]), Cylinder(rows[n], n)>>
    /\ Len(h.cylinders) = Len(rows)

\* C15 as stated: after any sequence of input rows the hierarchy is a
\* strict three-level tree in which no two rows are merged.
C15_StrictTreeOfAnyRows == StrictTree(output, input)

HasSeparator(label) == \E k \in 1..Len(label) : label[k] = "|"

\* No label of the rows holds the separator, and no two rows carry the same
\* three labels.
DistinctPlainRows(rows) ==
    /\ \A n \in 1..Len(rows) :
          /\ ~HasSeparator(rows[n].Container)
          /\ ~HasSeparator(rows[n].Box)
          /\ ~HasSeparator(rows[n].Cylinder)
    /\ \A m, n \in 1..Len(rows) :
          m # n => <<rows[m].Container, rows[m].Box, rows[m].Cylinder>>
                      # <<rows[n].Container, rows[n].Box, rows[n].Cylinder>>

\* C15, amended: after any sequence of input rows whose labels do not hold
\* the separator and whose triples of labels are pairwise distinct, the
\* hierarchy is a strict three-level tree in which no two rows are merged.
C15_StrictTreeOfDistinctRows ==
    DistinctPlainRows(input) => StrictTree(output, input)

\* Three such rows were read: a container met again with a second box, and
\* a box met again with a second cylinder.
C15_Witness ==
    /\ DistinctPlainRows(input)
    /\ Len(input) >= 3
    /\ Len(output.containers) < Len(output.boxes)
    /\ Len(output.boxes) < Len(input)

(***************************************************************************)
(* Properties of the search with the model as built.                       *)
(***************************************************************************)
\* C16: with an exact solver, every assignment that is feasible for the
\* model with the exclusion constraints appended so far is accepted by
\* evaluate_solution, so that the loop never ends by a rejection: every
\* call of the validator accepted, and the loop ended by an infeasible
\* model or by the cap.
C16_FeasibleIsAccepted ==
    /\ \A vals \in Feasible(exclusions) :
          ~evaluate_solution(vals, all_optimal_solutions).is_none
    /\ evalCalls = Len(accepted)
    /\ (pc = "done" /\ ~SentinelAtStart) =>
          \/ pulp_status_solve # LpStatusOptimal
          \/ counter_different_solutions > MAX_DIFFERENT_SOLUTIONS

\* Solutions were accepted until the model with their exclusion
\* constraints had no feasible assignment left, and the loop ended.
C16_Witness ==
    /\ pc = "done"
    /\ Len(accepted) >= 1
    /\ pulp_status_solve = LpStatusInfeasible
    /\ Feasible(exclusions) = {}

\* How many steps the run has left at most: the two cells before the loop,
\* then one test of the while condition for each value of the counter.
StepsLeft ==
    CASE pc = "solve"  -> MAX_DIFFERENT_SOLUTIONS + 4
      [] pc = "search" -> MAX_DIFFERENT_SOLUTIONS + 3
      [] pc = "while"  -> MAX_DIFFERENT_SOLUTIONS + 2 - counter_different_solutions
      [] OTHER         -> 0

\* C17: whatever the solver returns, the search ends, after at most
\* MAX_DIFFERENT_SOLUTIONS + 1 iterations of the loop: at most
\* MAX_DIFFERENT_SOLUTIONS + 1 calls of the validator and as many files
\* written, a counter that never exceeds MAX_DIFFERENT_SOLUTIONS + 1, and
\* a number of steps left that is never negative, that every step lowers
\* and that is zero at the end only.
C17_Terminates ==
    /\ [](/\ evalCalls <= MAX_DIFFERENT_SOLUTIONS + 1
          /\ Len(written) <= MAX_DIFFERENT_SOLUTIONS + 1
          /\ Cardinality(DOMAIN files \ DOMAIN files0)
                <= MAX_DIFFERENT_SOLUTIONS + 1
          /\ counter_different_solutions <= MAX_DIFFERENT_SOLUTIONS + 1
          /\ StepsLeft >= 0
          /\ pc = "done" <=> StepsLeft = 0)
    /\ [][StepsLeft' < StepsLeft]_vars

\* The loop ran MAX_DIFFERENT_SOLUTIONS + 1 times and ended.
C17_Witness ==
    /\ pc = "done"
    /\ evalCalls = MAX_DIFFERENT_SOLUTIONS + 1
    /\ counter_different_solutions = MAX_DIFFERENT_SOLUTIONS + 1

\* ','.join(chosen_cylinders_ids) of each solution accepted so far.
AcceptedStrings ==
    {Join(accepted[i].optimal_solution, ",") : i \in AcceptedIndices}

\* C18: the set all_optimal_solutions only grows and holds exactly the
\* strings of the solutions evaluate_solution accepted: a call that returns
\* None leaves the set as it was.
C18_OnlyAcceptedStrings ==
    /\ [](all_optimal_solutions = AcceptedStrings)
    /\ [][ /\ all_optimal_solutions \subseteq all_optimal_solutions'
           /\ (evalCalls' = evalCalls + 1 /\ accepted' = accepted) =>
                 all_optimal_solutions' = all_optimal_solutions ]_vars

=============================================================================
